---- MODULE Spec2Model ----
(***************************************************************************)
(* PomodoroTimer of src/main.py (lines 153-229): a phase state machine     *)
(* driven by a one-second QTimer, reporting through two callbacks,         *)
(* on_phase_changed(phase, seconds) and on_timer_finished().               *)
(*                                                                         *)
(* The handlers are operators over a record `self` holding the object's    *)
(* attributes, the QTimer's activity (timer_active) and the callbacks the  *)
(* handler has invoked so far (calls).  An action applies one handler to   *)
(* the current attributes and stores the result.                           *)
(*                                                                         *)
(* Durations are counted in seconds; the minute values of Config (25, 5,   *)
(* 15) and of the set-up dialog are scaled down to 1..MaxWork etc.         *)
(***************************************************************************)
EXTENDS Integers, Sequences, FiniteSets

VARIABLES
    work_seconds,               \* self.work_seconds
    break_seconds,              \* self.break_seconds
    long_break_seconds,         \* self.long_break_seconds
    rounds_before_long_break,   \* self.rounds_before_long_break
    remaining_seconds,          \* self.remaining_seconds
    current_phase,              \* self.current_phase
    completed_rounds,           \* self.completed_rounds
    total_rounds,               \* self.total_rounds
    timer_active,               \* self.timer.isActive()
    fired,                      \* callbacks invoked by the last operation
    lastOp,                     \* the last operation and its argument
    prevOp,                     \* the name of the operation before it
    phases,                     \* phases entered since the last start()
    trace                       \* callbacks invoked since the last start()

vars ==
    << work_seconds, break_seconds, long_break_seconds, rounds_before_long_break,
       remaining_seconds, current_phase, completed_rounds, total_rounds,
       timer_active, fired, lastOp, prevOp, phases, trace >>

\* Bounds of the model.
MaxWork == 3
MaxBreak == 2
MaxLong == 3
MaxRBLB == 4
MaxRounds == 5
MaxCompleted == 8

\* Python's None, the value of current_phase while no phase is active.
None == "None"

\* The two callback invocations an observer can see.
PhaseChanged(phase, seconds) ==
    [cb |-> "on_phase_changed", phase |-> phase, seconds |-> seconds]

TimerFinished ==
    [cb |-> "on_timer_finished", phase |-> None, seconds |-> 0]

\* The attributes of the timer object, with no callback invoked yet;
\* cb_stops tells whether the registered callbacks call stop().
Self ==
    [ work_seconds             |-> work_seconds,
      break_seconds            |-> break_seconds,
      long_break_seconds       |-> long_break_seconds,
      rounds_before_long_break |-> rounds_before_long_break,
      remaining_seconds        |-> remaining_seconds,
      current_phase            |-> current_phase,
      completed_rounds         |-> completed_rounds,
      total_rounds             |-> total_rounds,
      timer_active             |-> timer_active,
      cb_stops                 |-> FALSE,
      calls                    |-> << >> ]

-----------------------------------------------------------------------------
\* The handlers of PomodoroTimer.

\* stop() that clears the phase and leaves the QTimer running.
stop_phase_only(self) ==
    [self EXCEPT !.current_phase = None]

\* stop() written as a pause/resume switch of the QTimer.
stop_toggle(self) ==
    [self EXCEPT !.timer_active = ~@, !.current_phase = None]

\* stop() that also clears the session's counters.
stop_resets(self) ==
    [self EXCEPT !.timer_active = FALSE, !.current_phase = None,
                 !.remaining_seconds = 0, !.completed_rounds = 0]

stop(self) ==
    [self EXCEPT !.timer_active = FALSE, !.current_phase = None]

\* A call of stop() made by a callback, as logged after the callback.
StopFromCallback ==
    [cb |-> "stop", phase |-> None, seconds |-> 0]

\* if self.on_phase_changed: self.on_phase_changed(phase, seconds)
\* if self.on_timer_finished: self.on_timer_finished()
\* Both callbacks are registered (setup_pomodoro).  Those of TimeManagement
\* only update the display; a callback may also call stop(), which then runs
\* inside the handler that invoked it.
Invoke(self, call) ==
    LET s1 == [self EXCEPT !.calls = Append(@, call)]
    IN  IF self.cb_stops
        THEN stop([s1 EXCEPT !.calls = Append(@, StopFromCallback)])
        ELSE s1

\* _start_work_phase() starting the QTimer after the callback, not before.
_start_work_phase_arms_late(self) ==
    LET s1 == [self EXCEPT !.current_phase = "work",
                           !.remaining_seconds = self.work_seconds]
        s2 == Invoke(s1, PhaseChanged("work", s1.remaining_seconds))
    IN  [s2 EXCEPT !.timer_active = TRUE]

_start_work_phase(self) ==
    LET s1 == [self EXCEPT !.current_phase = "work",
                           !.remaining_seconds = self.work_seconds,
                           !.timer_active = TRUE]
    IN  Invoke(s1, PhaseChanged("work", s1.remaining_seconds))

\* start() that forgets to reset completed_rounds.
start_keeps_count(self, rounds) ==
    _start_work_phase([self EXCEPT !.total_rounds = rounds])

\* start() that returns at once on a round count that is not positive.
start_validated(self, rounds) ==
    IF rounds <= 0
    THEN self
    ELSE _start_work_phase([self EXCEPT !.total_rounds = rounds,
                                        !.completed_rounds = 0])

\* start() that ignores the call while the QTimer is running.
start_unless_running(self, rounds) ==
    IF self.timer_active
    THEN self
    ELSE _start_work_phase([self EXCEPT !.total_rounds = rounds,
                                        !.completed_rounds = 0])

start(self, rounds) ==
    _start_work_phase([self EXCEPT !.total_rounds = rounds,
                                   !.completed_rounds = 0])

\* _start_break_phase() testing the round count as it was before the increment.
_start_break_phase_stale_count(self) ==
    LET s1 == IF (self.completed_rounds - 1) % self.rounds_before_long_break = 0
              THEN [self EXCEPT !.current_phase = "long_break",
                                !.remaining_seconds = self.long_break_seconds]
              ELSE [self EXCEPT !.current_phase = "break",
                                !.remaining_seconds = self.break_seconds]
    IN  Invoke(s1, PhaseChanged(s1.current_phase, s1.remaining_seconds))

_start_break_phase(self) ==
    LET s1 == IF self.completed_rounds % self.rounds_before_long_break = 0
              THEN [self EXCEPT !.current_phase = "long_break",
                                !.remaining_seconds = self.long_break_seconds]
              ELSE [self EXCEPT !.current_phase = "break",
                                !.remaining_seconds = self.break_seconds]
    IN  Invoke(s1, PhaseChanged(s1.current_phase, s1.remaining_seconds))

\* _phase_finished() without its self.timer.stop().
_phase_finished_timer_running(self) ==
    IF self.current_phase = "work"
    THEN LET s2 == [self EXCEPT !.completed_rounds = @ + 1]
         IN  IF s2.completed_rounds >= s2.total_rounds
             THEN Invoke(s2, TimerFinished)
             ELSE _start_break_phase(s2)
    ELSE _start_work_phase(self)

\* _phase_finished() counting a round at the end of every phase.
_phase_finished_counts_breaks(self) ==
    LET s1 == [self EXCEPT !.timer_active = FALSE,
                           !.completed_rounds = @ + 1]
    IN  IF s1.current_phase = "work"
        THEN IF s1.completed_rounds >= s1.total_rounds
             THEN Invoke(s1, TimerFinished)
             ELSE _start_break_phase(s1)
        ELSE _start_work_phase(s1)

\* _phase_finished() comparing the rounds with > for >=.
_phase_finished_off_by_one(self) ==
    LET s1 == [self EXCEPT !.timer_active = FALSE]
    IN  IF s1.current_phase = "work"
        THEN LET s2 == [s1 EXCEPT !.completed_rounds = @ + 1]
             IN  IF s2.completed_rounds > s2.total_rounds
                 THEN Invoke(s2, TimerFinished)
                 ELSE _start_break_phase(s2)
        ELSE _start_work_phase(s1)

_phase_finished(self) ==
    LET s1 == [self EXCEPT !.timer_active = FALSE]
    IN  IF s1.current_phase = "work"
        THEN LET s2 == [s1 EXCEPT !.completed_rounds = @ + 1]
             IN  IF s2.completed_rounds >= s2.total_rounds
                 THEN Invoke(s2, TimerFinished)
                 ELSE _start_break_phase(s2)
        ELSE _start_work_phase(s1)

\* _tick() ending the phase only below zero (< for <=).
_tick_strict(self) ==
    LET s1 == [self EXCEPT !.remaining_seconds = @ - 1]
    IN  IF s1.remaining_seconds < 0
        THEN _phase_finished(s1)
        ELSE Invoke(s1, PhaseChanged(s1.current_phase, s1.remaining_seconds))

\* _tick() ending the phase one second early (<= 1 for <= 0).
_tick_early(self) ==
    LET s1 == [self EXCEPT !.remaining_seconds = @ - 1]
    IN  IF s1.remaining_seconds <= 1
        THEN _phase_finished(s1)
        ELSE Invoke(s1, PhaseChanged(s1.current_phase, s1.remaining_seconds))

\* _tick() reporting the seconds as they were before the decrement.
_tick_reports_before(self) ==
    LET s1 == [self EXCEPT !.remaining_seconds = @ - 1]
    IN  IF s1.remaining_seconds <= 0
        THEN _phase_finished(s1)
        ELSE Invoke(s1, PhaseChanged(s1.current_phase, self.remaining_seconds))

_tick(self) ==
    LET s1 == [self EXCEPT !.remaining_seconds = @ - 1]
    IN  IF s1.remaining_seconds <= 0
        THEN _phase_finished(s1)
        ELSE Invoke(s1, PhaseChanged(s1.current_phase, s1.remaining_seconds))

-----------------------------------------------------------------------------
\* What an observer of the timer records.

\* The phases the session has passed through: start() begins the list anew,
\* a change of current_phase adds the phase entered, on_timer_finished adds
\* "finished".
Observe(old, new, name) ==
    IF name = "start" THEN << "work" >>
    ELSE IF \E i \in 1..Len(new.calls) : new.calls[i] = TimerFinished
         THEN Append(phases, "finished")
    ELSE IF new.current_phase # old.current_phase /\ new.current_phase # None
         THEN Append(phases, new.current_phase)
    ELSE phases

\* The number of on_timer_finished calls since the last start().
FinishedCount ==
    Cardinality({i \in 1..Len(phases) : phases[i] = "finished"})

\* Stores the result `new` of operation `name(arg)`.
Commit(new, name, arg) ==
    /\ work_seconds' = new.work_seconds
    /\ break_seconds' = new.break_seconds
    /\ long_break_seconds' = new.long_break_seconds
    /\ rounds_before_long_break' = new.rounds_before_long_break
    /\ remaining_seconds' = new.remaining_seconds
    /\ current_phase' = new.current_phase
    /\ completed_rounds' = new.completed_rounds
    /\ total_rounds' = new.total_rounds
    /\ timer_active' = new.timer_active
    /\ fired' = new.calls
    /\ lastOp' = [name |-> name, arg |-> arg]
    /\ prevOp' = lastOp.name
    /\ phases' = Observe(Self, new, name)
    /\ trace' = IF name = "start" THEN new.calls ELSE trace \o new.calls

-----------------------------------------------------------------------------
\* PomodoroTimer.__init__: the configured durations (scaled), no phase, the
\* QTimer created but not started.
Init ==
    /\ work_seconds \in 1..MaxWork
    /\ break_seconds \in 1..MaxBreak
    /\ long_break_seconds \in 1..MaxLong
    /\ rounds_before_long_break \in 1..MaxRBLB
    /\ remaining_seconds = 0
    /\ current_phase = None
    /\ completed_rounds = 0
    /\ total_rounds = 0
    /\ timer_active = FALSE
    /\ fired = << >>
    /\ lastOp = [name |-> "init", arg |-> 0]
    /\ prevOp = "init"
    /\ phases = << >>
    /\ trace = << >>

\* pomodoro.start(rounds) with a positive number of rounds.
CallStart ==
    \E rounds \in 1..MaxRounds :
        Commit(start(Self, rounds), "start", rounds)

\* show_pomodoro_dialog: the user picks the rounds, the work time and the
\* break time; the durations are stored and the session is started.
ShowPomodoroDialog ==
    \E rounds \in 1..MaxRounds, work_time \in 1..MaxWork, break_time \in 1..MaxBreak :
        Commit(start([Self EXCEPT !.work_seconds = work_time,
                                  !.break_seconds = break_time], rounds),
               "start", rounds)

\* pomodoro.stop()
CallStop ==
    Commit(stop(Self), "stop", 0)

\* The QTimer's timeout signal, delivered only while the QTimer is active.
TimerTimeout ==
    /\ timer_active
    /\ Commit(_tick(Self), "tick", 0)

Next ==
    \/ CallStart
    \/ ShowPomodoroDialog
    \/ CallStop
    \/ TimerTimeout

Spec == Init /\ [][Next]_vars

-----------------------------------------------------------------------------
\* One session left to itself: a single start() on the fresh timer, then only
\* the QTimer's ticks.  An active QTimer keeps delivering its timeout, hence
\* the weak fairness of TimerTimeout.
FirstStart ==
    /\ lastOp.name = "init"
    /\ CallStart

SessionNext ==
    \/ FirstStart
    \/ TimerTimeout

SessionSpec == Init /\ [][SessionNext]_vars /\ WF_vars(TimerTimeout)

\* start() as the class accepts it: any integer, also zero and negative ones
\* (the set-up dialog offers 1..8 only).
CallStartInvalid ==
    \E rounds \in -1..0 :
        Commit(start(Self, rounds), "start", rounds)

AnyNext ==
    \/ Next
    \/ CallStartInvalid

AnySpec == Init /\ [][AnyNext]_vars

\* The end of a work phase over its whole domain: a work phase with any
\* number of rounds completed and any target, then the QTimer's ticks.
WorkPhaseInit ==
    /\ work_seconds \in 1..MaxWork
    /\ break_seconds \in 1..MaxBreak
    /\ long_break_seconds \in 1..MaxLong
    /\ rounds_before_long_break \in 1..MaxRBLB
    /\ remaining_seconds \in 1..work_seconds
    /\ current_phase = "work"
    /\ completed_rounds \in 0..MaxCompleted
    /\ total_rounds \in 1..(MaxCompleted + 2)
    /\ timer_active = TRUE
    /\ fired = << >>
    /\ lastOp = [name |-> "init", arg |-> 0]
    /\ prevOp = "init"
    /\ phases = << "work" >>
    /\ trace = << >>

WorkPhaseSpec == WorkPhaseInit /\ [][TimerTimeout]_vars

\* The timer with callbacks that call stop(): start() and the ticks as in
\* Spec, and start() and ticks whose callback stops the timer.
StartStopping ==
    \E rounds \in 1..MaxRounds :
        Commit(start([Self EXCEPT !.cb_stops = TRUE], rounds), "start", rounds)

TickStopping ==
    /\ timer_active
    /\ Commit(_tick([Self EXCEPT !.cb_stops = TRUE]), "tick", 0)

ReentrantNext ==
    \/ Next
    \/ StartStopping
    \/ TickStopping

ReentrantSpec == Init /\ [][ReentrantNext]_vars

\* The handlers over their whole domain: any phase with its countdown under
\* way and the QTimer delivering ticks, any number of rounds completed, then
\* start(), stop() and the ticks.  (In Spec a break never receives a tick.)
PhaseInit ==
    /\ work_seconds \in 1..MaxWork
    /\ break_seconds \in 1..MaxBreak
    /\ long_break_seconds \in 1..MaxLong
    /\ rounds_before_long_break \in 1..MaxRBLB
    /\ current_phase \in {"work", "break", "long_break"}
    /\ remaining_seconds \in
          1..(IF current_phase = "work" THEN work_seconds
              ELSE IF current_phase = "break" THEN break_seconds
              ELSE long_break_seconds)
    /\ completed_rounds \in 0..MaxRounds
    /\ total_rounds \in 1..MaxRounds
    /\ timer_active = TRUE
    /\ fired = << >>
    /\ lastOp = [name |-> "init", arg |-> 0]
    /\ prevOp = "init"
    /\ phases = << current_phase >>
    /\ trace = << >>

PhaseNext ==
    \/ CallStart
    \/ CallStop
    \/ TimerTimeout

PhaseSpec == PhaseInit /\ [][PhaseNext]_vars

-----------------------------------------------------------------------------
\* Helpers of the properties.

IsPrefix(s, t) ==
    /\ Len(s) <= Len(t)
    /\ \A i \in 1..Len(s) : s[i] = t[i]

\* The phases of a complete session of n rounds: n work phases, a break
\* after each but the last (a long one after every rounds_before_long_break
\* rounds), then "finished".
ExpectedPhases(n) ==
    [i \in 1..(2 * n) |->
        IF i = 2 * n THEN "finished"
        ELSE IF i % 2 = 1 THEN "work"
        ELSE IF (i \div 2) % rounds_before_long_break = 0 THEN "long_break"
        ELSE "break"]

Started == lastOp.name # "init"

-----------------------------------------------------------------------------
\* C1: after start(total_rounds) with positive total_rounds and durations and
\* no stop(), the QTimer's ticks eventually bring the session to completion:
\* on_timer_finished is eventually invoked.
C1_EventuallyFinished ==
    (Started /\ total_rounds >= 1) ~> (FinishedCount >= 1)

\* C2: within one session on_timer_finished is invoked at most once, and once
\* it has been invoked no callback is invoked and no tick is processed until
\* the next start().
C2_FinishedOnce ==
    [][ /\ FinishedCount' <= 1
        /\ (FinishedCount = 1 /\ lastOp'.name # "start")
              => (fired' = << >> /\ lastOp'.name # "tick") ]_vars

C2_Witness ==
    /\ FinishedCount = 1
    /\ lastOp.name = "stop"
    /\ total_rounds >= 1

\* C3: with start(5), rounds_before_long_break = 4, work = 2 s, break = 1 s
\* and long break = 3 s the session passes through work, break, work, break,
\* work, break, work, long_break, work, finished; in general a session of n
\* rounds left to itself runs through n work phases alternating with n - 1
\* breaks and then finishes.
ScenarioPhases ==
    << "work", "break", "work", "break", "work", "break",
       "work", "long_break", "work", "finished" >>

Scenario ==
    /\ Started
    /\ work_seconds = 2
    /\ break_seconds = 1
    /\ long_break_seconds = 3
    /\ rounds_before_long_break = 4
    /\ total_rounds = 5

C3_PhaseSequence ==
    /\ Scenario =>
          /\ IsPrefix(phases, ScenarioPhases)
          /\ ~timer_active => phases = ScenarioPhases
    /\ (Started /\ total_rounds >= 1) =>
          /\ IsPrefix(phases, ExpectedPhases(total_rounds))
          /\ ~timer_active => phases = ExpectedPhases(total_rounds)

\* C4: when a tick ends a work phase and the round target is not yet met,
\* completed_rounds is incremented and the break entered is long_break (with
\* the long-break duration) exactly when the incremented completed_rounds is a
\* multiple of rounds_before_long_break, else break (with the break
\* duration); with rounds_before_long_break = 4 that is rounds 4, 8, ...;
\* with rounds_before_long_break = 1 every break is long.
C4_BreakKind ==
    [][ (/\ lastOp'.name = "tick"
         /\ current_phase = "work"
         /\ remaining_seconds - 1 <= 0
         /\ completed_rounds + 1 < total_rounds)
        => /\ completed_rounds' = completed_rounds + 1
           /\ current_phase' =
                 IF completed_rounds' % rounds_before_long_break = 0
                 THEN "long_break" ELSE "break"
           /\ remaining_seconds' =
                 IF completed_rounds' % rounds_before_long_break = 0
                 THEN long_break_seconds ELSE break_seconds
           /\ rounds_before_long_break = 4 =>
                 (current_phase' = "long_break"
                    <=> completed_rounds' \in {4 * k : k \in 1..MaxCompleted})
           /\ rounds_before_long_break = 1 => current_phase' = "long_break"
      ]_vars

C4_Witness ==
    /\ lastOp.name = "tick"
    /\ rounds_before_long_break = 4
    /\ completed_rounds = 8
    /\ current_phase = "long_break"
    /\ remaining_seconds = long_break_seconds

C6_StopSilent ==
    [][ /\ lastOp'.name = "stop"
           => (fired' = << >> /\ current_phase' = None /\ ~timer_active')
        /\ (current_phase = None /\ lastOp'.name # "start")
           => (fired' = << >> /\ lastOp'.name # "tick") ]_vars

C6_Witness ==
    /\ lastOp.name = "stop"
    /\ prevOp = "tick"
    /\ remaining_seconds >= 1
    /\ remaining_seconds < work_seconds

\* C7: stop() is idempotent: a stop() that follows a stop() changes no
\* attribute of the timer and, like the first, invokes no callback.
C7_StopIdempotent ==
    [][ (lastOp.name = "stop" /\ lastOp'.name = "stop")
        => /\ UNCHANGED << work_seconds, break_seconds, long_break_seconds,
                           rounds_before_long_break, remaining_seconds,
                           current_phase, completed_rounds, total_rounds,
                           timer_active >>
           /\ fired = << >>
           /\ fired' = << >> ]_vars

C7_Witness ==
    /\ lastOp.name = "stop"
    /\ prevOp = "stop"
    /\ remaining_seconds >= 1

\* C8: start(total_rounds) with total_rounds >= 1 on the idle timer sets
\* completed_rounds to 0, total_rounds to the argument, the phase to work and
\* remaining_seconds to the work duration, starts the QTimer and invokes
\* on_phase_changed("work", work duration) once and nothing else.
C8_StartFromIdle ==
    [][ (lastOp'.name = "start" /\ lastOp'.arg >= 1 /\ current_phase = None)
        => /\ completed_rounds' = 0
           /\ total_rounds' = lastOp'.arg
           /\ current_phase' = "work"
           /\ remaining_seconds' = work_seconds'
           /\ timer_active'
           /\ fired' = << PhaseChanged("work", work_seconds') >> ]_vars

C8_Witness ==
    /\ lastOp.name = "start"
    /\ prevOp = "stop"
    /\ total_rounds = 2
    /\ current_phase = "work"

\* C9: a tick decrements remaining_seconds by 1; when the result is positive
\* it invokes on_phase_changed(current phase, result) once and leaves the
\* phase, completed_rounds, total_rounds and the QTimer alone, so a phase
\* transition happens only when the result is <= 0.
C9_Tick ==
    [][ lastOp'.name = "tick"
        => IF remaining_seconds - 1 > 0
           THEN /\ remaining_seconds' = remaining_seconds - 1
                /\ fired' = << PhaseChanged(current_phase, remaining_seconds - 1) >>
                /\ UNCHANGED << current_phase, completed_rounds, total_rounds,
                                timer_active >>
           ELSE fired' = << TimerFinished >>
                   => remaining_seconds' = remaining_seconds - 1 ]_vars

C9_Witness ==
    /\ lastOp.name = "tick"
    /\ current_phase = "work"
    /\ timer_active
    /\ remaining_seconds >= 1
    /\ fired = << PhaseChanged("work", remaining_seconds) >>

\* C10 as claimed: start(total_rounds) with total_rounds <= 0 changes nothing
\* and invokes no callback, and on_timer_finished is never invoked for it.
C10_SilentNoOp ==
    [][ /\ (lastOp'.name = "start" /\ lastOp'.arg <= 0)
           => /\ UNCHANGED << current_phase, remaining_seconds,
                              completed_rounds, timer_active >>
              /\ fired' = << >>
        /\ (Started' /\ total_rounds' <= 0) => FinishedCount' = 0 ]_vars

\* C10 as the code has it: start(total_rounds) with total_rounds <= 0 starts
\* a session as a positive argument does (completed_rounds 0, total_rounds the
\* argument, work phase at the work duration, QTimer started,
\* on_phase_changed("work", work duration) invoked once), and the tick that
\* ends its first work phase invokes on_timer_finished.
C10_InvalidStartsSession ==
    [][ /\ (lastOp'.name = "start" /\ lastOp'.arg <= 0)
           => /\ completed_rounds' = 0
              /\ total_rounds' = lastOp'.arg
              /\ current_phase' = "work"
              /\ remaining_seconds' = work_seconds'
              /\ timer_active'
              /\ fired' = << PhaseChanged("work", work_seconds') >>
        /\ (lastOp'.name = "tick" /\ total_rounds <= 0
               /\ remaining_seconds - 1 <= 0)
           => (fired' = << TimerFinished >> /\ ~timer_active') ]_vars

C10_Witness ==
    /\ lastOp.name = "tick"
    /\ total_rounds <= 0
    /\ FinishedCount = 1

\* C11: once on_timer_finished has been invoked the timer is back at idle:
\* current_phase is None (not "work") and the QTimer is not running.
C11_FinishedIsIdle ==
    FinishedCount >= 1 => (current_phase = None /\ ~timer_active)

\* C12: on_phase_changed is invoked once when a phase starts, with the phase's
\* full duration, and once per later tick of the phase, with the seconds left
\* after the decrement, never with 0; start(1) with work duration W gives
\* on_phase_changed("work", W), ("work", W - 1), ..., ("work", 1) and then, on
\* tick W, on_timer_finished.
PhaseDuration(phase) ==
    IF phase = "work" THEN work_seconds
    ELSE IF phase = "break" THEN break_seconds
    ELSE long_break_seconds

SingleRoundTrace ==
    [i \in 1..(work_seconds + 1) |->
        IF i = work_seconds + 1 THEN TimerFinished
        ELSE PhaseChanged("work", work_seconds - i + 1)]

C12_CallbackTrace ==
    /\ phases # << >> =>
          (Len(trace) >= 1 /\ trace[1] = PhaseChanged("work", work_seconds))
    /\ \A i \in 1..Len(trace) :
          trace[i].cb = "on_phase_changed" => trace[i].seconds >= 1
    /\ \A i \in 2..Len(trace) :
          LET a == trace[i - 1]
              b == trace[i]
          IN  /\ a.cb = "on_phase_changed"
              /\ \/ b = PhaseChanged(a.phase, a.seconds - 1)
                 \/ /\ a.seconds = 1
                    /\ b = TimerFinished
                 \/ /\ a.seconds = 1
                    /\ b.cb = "on_phase_changed"
                    /\ b.phase # a.phase
                    /\ b.seconds = PhaseDuration(b.phase)
    /\ (phases # << >> /\ total_rounds = 1) =>
          /\ IsPrefix(trace, SingleRoundTrace)
          /\ FinishedCount = 1 => trace = SingleRoundTrace

C12_Witness ==
    /\ total_rounds = 1
    /\ FinishedCount = 1
    /\ work_seconds = 3
    /\ trace = << PhaseChanged("work", 3), PhaseChanged("work", 2),
                  PhaseChanged("work", 1), TimerFinished >>

\* C13: stop() called from inside a callback takes effect at once: when the
\* start() or tick that invoked the callback returns, current_phase is None
\* and the QTimer is not running, and no tick and no callback follows until
\* the next start().
StoppedInCallback(calls) ==
    \E i \in 1..Len(calls) : calls[i] = StopFromCallback

C13_StopInCallback ==
    [][ /\ StoppedInCallback(fired')
           => (current_phase' = None /\ ~timer_active')
        /\ (StoppedInCallback(fired) /\ lastOp'.name # "start")
           => (lastOp'.name # "tick" /\ fired' = << >>) ]_vars

C13_Witness ==
    /\ lastOp.name = "start"
    /\ fired = << PhaseChanged("work", work_seconds), StopFromCallback >>
    /\ current_phase = None
    /\ ~timer_active

\* C14: the QTimer runs exactly while a phase is active: it is running
\* whenever current_phase is work, break or long_break in a session that has
\* not finished, and it is not running while the timer is idle.
C14_TimerTracksPhase ==
    /\ (current_phase \in {"work", "break", "long_break"} /\ FinishedCount = 0)
          => timer_active
    /\ current_phase = None => ~timer_active

\* C16: a break or long break that is entered and not stopped counts down and
\* is followed by a work phase: remaining_seconds at the work duration, the
\* QTimer running, on_phase_changed("work", work duration) invoked.
C16_BreakReturnsToWork ==
    (current_phase \in {"break", "long_break"})
        ~> (/\ current_phase = "work"
            /\ remaining_seconds = work_seconds
            /\ timer_active
            /\ fired = << PhaseChanged("work", work_seconds) >>)

\* C15: completed_rounds changes in two ways only: start() resets it to 0 and
\* the tick that ends a work phase adds 1; a tick that ends no work phase, the
\* end of a break or long break, and stop() leave it alone.
EndsWorkPhase ==
    /\ current_phase = "work"
    /\ remaining_seconds - 1 <= 0

C15_RoundCounter ==
    [][ /\ lastOp'.name = "start" => completed_rounds' = 0
        /\ (lastOp'.name = "tick" /\ EndsWorkPhase)
              => completed_rounds' = completed_rounds + 1
        /\ (lastOp'.name = "tick" /\ ~EndsWorkPhase)
              => completed_rounds' = completed_rounds
        /\ lastOp'.name = "stop" => completed_rounds' = completed_rounds ]_vars

C15_Witness ==
    /\ lastOp.name = "tick"
    /\ prevOp = "tick"
    /\ current_phase = "work"
    /\ fired = << PhaseChanged("work", work_seconds) >>
    /\ completed_rounds = 2

\* C17: in a session started with total_rounds >= 1, completed_rounds never
\* exceeds total_rounds, and during a break or long break
\* 1 <= completed_rounds < total_rounds: no break follows the final round,
\* also when total_rounds is a multiple of rounds_before_long_break.  The
\* fresh timer satisfies RoundsWithinTarget, and no operation breaks it; its
\* last conjunct (a work phase still counting down has not met the target)
\* is what makes it inductive.
RoundsWithinTarget ==
    /\ completed_rounds <= total_rounds
    /\ current_phase \in {"break", "long_break"}
          => (1 <= completed_rounds /\ completed_rounds < total_rounds)
    /\ (current_phase = "work" /\ timer_active)
          => completed_rounds < total_rounds

C17_RoundsWithinTarget ==
    [][ (total_rounds' >= 1 /\ RoundsWithinTarget) => RoundsWithinTarget' ]_vars

C17_Witness ==
    /\ lastOp.name = "tick"
    /\ rounds_before_long_break = 4
    /\ total_rounds = 4
    /\ completed_rounds = 4
    /\ FinishedCount = 1
    /\ current_phase = "work"

\* C18: start(n) with n >= 1 while a session is active or after one has
\* finished discards it and begins a fresh one: completed_rounds 0,
\* total_rounds n, work phase at the work duration, QTimer running, the
\* record of the old session gone; on_timer_finished is only ever invoked for
\* a session that has gone through total_rounds work phases of its own.
WorkPhases ==
    Cardinality({i \in 1..Len(phases) : phases[i] = "work"})

C18_Restart ==
    [][ /\ (lastOp'.name = "start" /\ lastOp'.arg >= 1 /\ current_phase # None)
           => /\ completed_rounds' = 0
              /\ total_rounds' = lastOp'.arg
              /\ current_phase' = "work"
              /\ remaining_seconds' = work_seconds'
              /\ timer_active'
              /\ phases' = << "work" >>
              /\ fired' = << PhaseChanged("work", work_seconds') >>
        /\ FinishedCount' >= 1
           => (completed_rounds' = total_rounds' /\ WorkPhases' = total_rounds')
      ]_vars

C18_Witness ==
    /\ lastOp.name = "start"
    /\ prevOp = "tick"
    /\ total_rounds = 3
    /\ completed_rounds = 0
    /\ timer_active

\* C19: stop() changes current_phase (to None) and the QTimer (to inactive)
\* and nothing else: remaining_seconds, completed_rounds, total_rounds, the
\* durations and rounds_before_long_break keep their values.
C19_StopFrame ==
    [][ lastOp'.name = "stop"
        => /\ UNCHANGED << remaining_seconds, completed_rounds, total_rounds,
                           work_seconds, break_seconds, long_break_seconds,
                           rounds_before_long_break >>
           /\ current_phase' = None
           /\ ~timer_active' ]_vars

C19_Witness ==
    /\ lastOp.name = "stop"
    /\ prevOp = "tick"
    /\ current_phase = None
    /\ completed_rounds = 1
    /\ total_rounds = 3
    /\ remaining_seconds >= 1

====
